---------------------------- MODULE Spec2Model ----------------------------
(***************************************************************************)
(* A model of the MCMC sampler of src/chain.c: the target distribution     *)
(* (model, prior, like, post), the Box-Muller step (gauss), the Metropolis *)
(* loop and the rank-ordered chain writer of walkers().                    *)
(*                                                                         *)
(* Doubles are represented on the integer grid together with the IEEE      *)
(* special values: a value is [k |-> "fin", v |-> n], NaN, PInf or NInf.   *)
(* Every libm call (log, exp, sqrt, cos, sin) returns the grid value       *)
(* nearest to its real result, as the C library returns the nearest        *)
(* double.  Baseline coordinates are measured in units of                  *)
(* 1/(4*muarcsecToRad), so that one unit of uCo*dx is a quarter turn of    *)
(* phase.  The literal 1.e34 is represented by Huge, which absorbs every   *)
(* ordinary value added to it, as 1.e34 does in double arithmetic.         *)
(*                                                                         *)
(* Spec runs walkers() on every rank, SpecEval evaluates prior, like and   *)
(* post, SpecGauss draws from gauss, SpecDet runs walkers() twice with one *)
(* seed, SpecMain runs main() of src/mcmc.c with readData() of             *)
(* src/readdata.c, and SpecLive runs walkers() on every rank with no       *)
(* failure and every rank kept running.                                    *)
(***************************************************************************)
EXTENDS Integers, Sequences, FiniteSets, TLC

\* ------------------------------------------------------------------ bounds
\* width, in bits, of a word of the random series (32 in the program)
DrawBits == 2
\* longest chain requested (Nchain ranges over 0..MaxChain)
MaxChain == 2
\* largest number of MPI ranks
MaxWorld == 2
\* largest number of data points
MaxPts == 1
\* largest number of rows of the chain file (sz*Nchain)
MaxRows == 4
\* length of the random series of a seed, which then repeats
StreamPeriod == 2

\* ------------------------------------------------------- IEEE arithmetic
Huge == 1000000000

Fin(n) == [k |-> "fin", v |-> n]

NaN == [k |-> "nan", v |-> 0]

PInf == [k |-> "inf", v |-> 1]

NInf == [k |-> "inf", v |-> -1]

IsNaN(x) == x.k = "nan"

IsFin(x) == x.k = "fin"

IsInf(x) == x.k = "inf"

Sgn(n) == IF n > 0 THEN 1 ELSE IF n < 0 THEN -1 ELSE 0

Abs(n) == IF n < 0 THEN -n ELSE n

\* the sign of a double that is not a NaN: -1, 0 or 1
DSign(x) == Sgn(x.v)

\* a + b
DAdd(a, b) ==
  IF IsNaN(a) \/ IsNaN(b) THEN NaN
  ELSE IF IsInf(a) /\ IsInf(b) THEN (IF a.v = b.v THEN a ELSE NaN)
  ELSE IF IsInf(a) THEN a
  ELSE IF IsInf(b) THEN b
  ELSE IF Abs(a.v) >= Huge /\ Abs(b.v) < Huge THEN a
  ELSE IF Abs(b.v) >= Huge /\ Abs(a.v) < Huge THEN b
  ELSE Fin(a.v + b.v)

\* -a
DNeg(a) == IF IsNaN(a) THEN NaN ELSE [k |-> a.k, v |-> -a.v]

\* a - b
DSub(a, b) == DAdd(a, DNeg(b))

\* a * b
DMul(a, b) ==
  IF IsNaN(a) \/ IsNaN(b) THEN NaN
  ELSE IF IsInf(a) \/ IsInf(b)
       THEN (IF DSign(a) * DSign(b) = 0 THEN NaN
             ELSE IF DSign(a) * DSign(b) > 0 THEN PInf ELSE NInf)
  ELSE Fin(a.v * b.v)

\* n / d for integers, d > 0, rounded to the nearest integer
RoundDiv(n, d) ==
  IF n >= 0 THEN (2 * n + d) \div (2 * d) ELSE -((2 * (-n) + d) \div (2 * d))

\* a / b
DDiv(a, b) ==
  IF IsNaN(a) \/ IsNaN(b) THEN NaN
  ELSE IF IsInf(a) /\ IsInf(b) THEN NaN
  ELSE IF IsInf(a) THEN (IF DSign(a) * (IF b.v < 0 THEN -1 ELSE 1) > 0 THEN PInf ELSE NInf)
  ELSE IF IsInf(b) THEN Fin(0)
  ELSE IF b.v = 0 THEN (IF a.v = 0 THEN NaN ELSE IF a.v > 0 THEN PInf ELSE NInf)
  ELSE Fin(Sgn(b.v) * RoundDiv(a.v, Abs(b.v)))

\* a < b: false when either is a NaN
DLt(a, b) ==
  /\ ~IsNaN(a)
  /\ ~IsNaN(b)
  /\ IF IsInf(a) /\ IsInf(b) THEN a.v < b.v
     ELSE IF IsInf(a) THEN a.v < 0
     ELSE IF IsInf(b) THEN b.v > 0
     ELSE a.v < b.v

\* a > b
DGt(a, b) == DLt(b, a)

\* a >= b: false when either is a NaN
DGe(a, b) == ~IsNaN(a) /\ ~IsNaN(b) /\ ~DLt(a, b)

\* e^(j+1/2), times 10000, for j = -7..6
EHalf ==
  [j \in -7..6 |->
     CASE j = -7 -> 15      [] j = -6 -> 41      [] j = -5 -> 111
       [] j = -4 -> 302     [] j = -3 -> 821     [] j = -2 -> 2231
       [] j = -1 -> 6065    [] j = 0 -> 16487    [] j = 1 -> 44817
       [] j = 2 -> 121825   [] j = 3 -> 331155   [] j = 4 -> 900171
       [] j = 5 -> 2446919  [] j = 6 -> 6651416]

\* the integer nearest to ln(n/d), for n > 0 and d > 0 (clamped to -7..7)
RoundLn(n, d) ==
  CHOOSE j \in -7..7 :
     /\ (j = -7 \/ n * 10000 > EHalf[j - 1] * d)
     /\ (j = 7 \/ n * 10000 <= EHalf[j] * d)

\* log of the rational n/d (d > 0)
LogQ(n, d) ==
  IF n < 0 THEN NaN ELSE IF n = 0 THEN NInf ELSE Fin(RoundLn(n, d))

\* log(x)
DLog(x) ==
  IF IsNaN(x) THEN NaN
  ELSE IF IsInf(x) THEN (IF x.v > 0 THEN PInf ELSE NaN)
  ELSE LogQ(x.v, 1)

\* the integer nearest to the square root of n >= 0
RoundSqrt(n) ==
  IF n = 0 THEN 0 ELSE CHOOSE j \in 1..n : j * j - j < n /\ n <= j * j + j

\* sqrt(x)
DSqrt(x) ==
  IF IsNaN(x) THEN NaN
  ELSE IF IsInf(x) THEN (IF x.v > 0 THEN PInf ELSE NaN)
  ELSE IF x.v < 0 THEN NaN
  ELSE Fin(RoundSqrt(x.v))

\* exp(-aux*t*muarcsecToRad^2) for t >= 0: with aux = 2 pi^2 and
\* muarcsecToRad = 1/4 it is 1 at t = 0 and below 0.3 from t = 1 on
DExpGauss(t) ==
  IF IsNaN(t) THEN NaN
  ELSE IF IsInf(t) THEN (IF t.v > 0 THEN Fin(0) ELSE PInf)
  ELSE IF t.v = 0 THEN Fin(1)
  ELSE IF t.v > 0 THEN Fin(0)
  ELSE PInf

\* cos of q quarter turns
DCosQ(q) ==
  IF ~IsFin(q) THEN NaN
  ELSE CASE q.v % 4 = 0 -> Fin(1)
         [] q.v % 4 = 2 -> Fin(-1)
         [] OTHER -> Fin(0)

\* sin of q quarter turns
DSinQ(q) ==
  IF ~IsFin(q) THEN NaN
  ELSE CASE q.v % 4 = 1 -> Fin(1)
         [] q.v % 4 = 3 -> Fin(-1)
         [] OTHER -> Fin(0)


\* ------------------------------------------------------------ program state
VARIABLES
  sz,             \* number of MPI ranks (MPI_Comm_size)
  Nchain,         \* requested chain length
  Aparam0,        \* the caller's parameter array when walkers() is entered
  dev,            \* standard deviations of the Gaussian steps
  data,           \* the dataset: uCo, vCo, Vis, Sigma
  implicitInt,    \* the build reads randomMT()'s result as int (no prototype)
  pc,             \* position of each rank in walkers()
  Aparam,         \* each rank's parameter array
  AparamMax,      \* each rank's most likely parameters
  probpre,        \* each rank's stored posterior of the current state
  postMax,        \* each rank's *postMax
  accept,         \* each rank's acceptance counter
  ichain,         \* each rank's chain index
  chains,         \* each rank's chain buffer
  turn,           \* each rank's loop variable r of the writer loop
  acceptance,     \* each rank's return value
  chainfile,      \* the ranks that hold the chain file open
  file,           \* the rows of the chain file
  ev,             \* one evaluation of the target distribution
  mt,             \* the random series of the seed and each process's place in it
  driver          \* main(): its position, the files and its exit status

vars ==
  <<sz, Nchain, Aparam0, dev, data, implicitInt, pc, Aparam, AparamMax, probpre,
    postMax, accept, ichain, chains, turn, acceptance, chainfile, file, ev, mt,
    driver>>

\* the arguments of walkers() and the build
inputs == <<sz, Nchain, Aparam0, dev, data, implicitInt>>

\* number of model parameters (main passes 6; model, prior and like read
\* the entries 0, 1, 2, 3, 4, 5)
Nparam == 6

\* number of data points of a dataset
Npts(d) == Len(d.uCo)

\* --------------------------------------------------- target distribution
\* the visibility amplitude of the two-Gaussian model at (u, v)
model(u, v, A) ==
  LET b02 == Fin(u * u + v * v)
      Vr1 == DMul(A[1], DExpGauss(DMul(DMul(A[2], A[2]), b02)))
      V2 == DMul(A[5], DExpGauss(DMul(DMul(A[6], A[6]), b02)))
      phase2 == DNeg(DAdd(DMul(Fin(u), A[3]), DMul(Fin(v), A[4])))
      Vr2 == DMul(V2, DCosQ(phase2))
      Vi2 == DMul(V2, DSinQ(phase2))
      re == DAdd(Vr1, Vr2)
  IN  DSqrt(DAdd(DMul(re, re), DMul(Vi2, Vi2)))

\* the log prior: -log(flux1*width1*flux2*width2), no check of the signs
prior(A) == DNeg(DLog(DMul(DMul(DMul(A[1], A[2]), A[5]), A[6])))

\* a guard that tests the offset dx in place of the width of component 1
NegativeGuardOffset(A) ==
  DLt(A[1], Fin(0)) \/ DLt(A[3], Fin(0)) \/ DLt(A[5], Fin(0)) \/ DLt(A[6], Fin(0))

\* the guard of like(): a flux or a width is negative
NegativeGuard(A) ==
  DLt(A[1], Fin(0)) \/ DLt(A[2], Fin(0)) \/ DLt(A[5], Fin(0)) \/ DLt(A[6], Fin(0))

\* a chi2 that leaves out the errors of the data points
RECURSIVE Chi2Unweighted(_, _, _)
Chi2Unweighted(A, d, n) ==
  IF n = 0 THEN Fin(0)
  ELSE LET variance == DSub(Fin(d.Vis[n]), model(d.uCo[n], d.vCo[n], A))
       IN  DAdd(Chi2Unweighted(A, d, n - 1), DMul(variance, variance))

\* chi2 after the first n data points
RECURSIVE Chi2(_, _, _)
Chi2(A, d, n) ==
  IF n = 0 THEN Fin(0)
  ELSE LET variance == DSub(Fin(d.Vis[n]), model(d.uCo[n], d.vCo[n], A))
           sig == Fin(d.Sigma[n])
       IN  DAdd(Chi2(A, d, n - 1), DDiv(DMul(variance, variance), DMul(sig, sig)))

\* one call of like(): its result, the number of calls of model() it made and
\* whether it returned from the guard
likeRun(A, d) ==
  IF NegativeGuard(A)
  THEN [result |-> Fin(-Huge), nmodel |-> 0, guarded |-> TRUE]
  ELSE [result |-> DNeg(Chi2(A, d, Npts(d))), nmodel |-> Npts(d), guarded |-> FALSE]

\* the log likelihood
like(A, d) == likeRun(A, d).result

\* the log posterior: both operands of the sum are always evaluated
post(A, d) == DAdd(prior(A), like(A, d))

\* ------------------------------------------------------ Gaussian proposal
\* 2^n
RECURSIVE Pow2(_)
Pow2(n) == IF n = 0 THEN 1 ELSE 2 * Pow2(n - 1)

\* the largest word of the random series (0xFFFFFFFF for 32-bit words)
MTMAX == Pow2(DrawBits) - 1

\* the words randomMT() can return
Words == 0..MTMAX

\* the value the caller sees for a word: chain.c calls randomMT() without a
\* prototype, so the result is read as an int where the build does so
Draw(word) ==
  IF implicitInt /\ word >= Pow2(DrawBits - 1) THEN word - Pow2(DrawBits) ELSE word

\* draw/(MTMAX*1.0)+0.5 as the fraction n/d
Uniform(draw) == [n |-> 2 * draw + MTMAX, d |-> 2 * MTMAX]

\* exp(-(j+1/2)^2/2), times 1000000, for j = 0..4
RadiusCut == <<882497, 324652, 43937, 2187, 40>>

\* sqrt(-2.0*log(y)): a NaN when y < 0 (log of a negative) and when y > 1
\* (square root of a negative)
BoxMullerRadius(y) ==
  IF y.n < 0 \/ y.n > y.d THEN NaN
  ELSE IF y.n = 0 THEN PInf
  ELSE Fin(Cardinality({j \in 1..Len(RadiusCut) : y.n * 1000000 <= RadiusCut[j] * y.d}))

\* cos(2.0*M_PI*y)
BoxMullerCos(y) ==
  LET m == y.n % y.d
  IN  IF 6 * m <= y.d \/ 6 * m >= 5 * y.d THEN Fin(1)
      ELSE IF 3 * m >= y.d /\ 3 * m <= 2 * y.d THEN Fin(-1)
      ELSE Fin(0)

\* gauss(sigma) when randomMT() returns word1 and then word2
gauss(sigma, word1, word2) ==
  LET y1 == Uniform(Draw(word1))
      y2 == Uniform(Draw(word2))
  IN  DMul(DMul(sigma, BoxMullerRadius(y1)), BoxMullerCos(y2))

\* the steps gauss(sigma) can return
Steps(sigma) == {gauss(sigma, word1, word2) : word1 \in Words, word2 \in Words}

\* ------------------------------------------------------------------ inputs
\* a parameter vector with the given grid values
Vec(s) == [i \in 1..Nparam |-> Fin(s[i])]

\* the initial parameter vectors: flux1, width1, dx, dy, flux2, width2
InitialVectors == {Vec(<<2, 1, -1, 1, 1, 1>>), Vec(<<-1, -1, 0, 0, 1, 1>>)}

\* the step deviations
Deviations == {Vec(<<1, 0, 0, 0, 0, 0>>), Vec(<<2, 0, 0, 0, 0, 0>>)}

\* the data points: u, v, visibility amplitude, sigma
Points == {<<0, 0, 3, 1>>, <<1, 0, 1, 2>>}

\* the sequences of at most n elements of S
RECURSIVE SeqsUpTo(_, _)
SeqsUpTo(S, n) ==
  IF n = 0 THEN {<<>>}
  ELSE LET shorter == SeqsUpTo(S, n - 1)
       IN  shorter \cup {Append(q, x) : q \in {t \in shorter : Len(t) = n - 1}, x \in S}

\* the dataset with the given points
DataOf(q) ==
  [uCo |-> [i \in 1..Len(q) |-> q[i][1]], vCo |-> [i \in 1..Len(q) |-> q[i][2]],
   Vis |-> [i \in 1..Len(q) |-> q[i][3]], Sigma |-> [i \in 1..Len(q) |-> q[i][4]]]

\* the datasets readData() can hand over
DataSets == {DataOf(q) : q \in SeqsUpTo(Points, MaxPts)}

\* the dataset of the runs with several ranks: one point at zero baseline
OnePoint == DataOf(<<<<0, 0, 3, 1>>>>)

\* the arguments of a run: one rank runs on every combination of the
\* vectors, deviations and datasets above and on one with steps in both
\* flux1 and width1; several ranks run on one combination
WalkerInputs(n) ==
  IF n = 1
  THEN {[Aparam0 |-> a, dev |-> d, data |-> x] :
          a \in InitialVectors, d \in Deviations, x \in DataSets}
       \cup {[Aparam0 |-> Vec(<<2, 1, -1, 1, 1, 1>>), dev |-> Vec(<<2, 2, 0, 0, 0, 0>>),
               data |-> OnePoint]}
  ELSE {[Aparam0 |-> Vec(<<2, 1, -1, 1, 1, 1>>), dev |-> Vec(<<2, 0, 0, 0, 0, 0>>),
         data |-> OnePoint]}

\* what an array holds before it is assigned: any values
Garbage == {[i \in 1..Nparam |-> Fin(7)], [i \in 1..Nparam |-> NaN]}

\* an array that has not been assigned
Unset == <<>>

\* the MPI ranks
Ranks == 0..(sz - 1)

\* ---------------------------------------------------------------- walkers
\* the candidate: a Gaussian step in each parameter
Candidate(A, steps) == [i \in 1..Nparam |-> DAdd(A[i], steps[i])]

\* the candidates the random series can lead to from A
Candidates(A) ==
  {Candidate(A, <<s1, s2, s3, s4, s5, s6>>) :
     s1 \in Steps(dev[1]), s2 \in Steps(dev[2]), s3 \in Steps(dev[3]),
     s4 \in Steps(dev[4]), s5 \in Steps(dev[5]), s6 \in Steps(dev[6])}

\* the MCMC condition for the uniform value y
MetropolisTest(ppost, ppre, y) == DGe(ppost, DAdd(ppre, LogQ(y.n, y.d)))

\* a test that takes every accepted candidate for the most likely one
IsMostLikelyAlways(ppost, pmax) == TRUE

\* a test that also takes a candidate as likely as the most likely one
IsMostLikelyOrEqual(ppost, pmax) == DGe(ppost, pmax)

\* the test for the most likely value
IsMostLikely(ppost, pmax) == DGt(ppost, pmax)

\* a record of the candidate, accepted or not
ChainRowCandidate(A, cand) == cand

\* the row recorded for an iteration: the parameters after the test
ChainRow(A, cand) == A

\* accept/(1.0*Nchain) as the fraction num/den: with den = 0 it is 0/0, a NaN
AcceptanceRatio(acc, n) == [num |-> acc, den |-> n]

\* 10^n
RECURSIVE Pow10(_)
Pow10(n) == IF n = 0 THEN 1 ELSE 10 * Pow10(n - 1)

\* the number of decimal digits of n > 0
RECURSIVE Digits(_)
Digits(n) == IF n < 10 THEN 1 ELSE 1 + Digits(n \div 10)

\* a value as printed by "%e": sign, seven significant digits and exponent
FormatE(x) ==
  IF IsNaN(x) THEN [text |-> "nan", sign |-> 1, mant |-> 0, exp |-> 0]
  ELSE IF IsInf(x) THEN [text |-> "inf", sign |-> x.v, mant |-> 0, exp |-> 0]
  ELSE IF x.v = 0 THEN [text |-> "e", sign |-> 1, mant |-> 0, exp |-> 0]
  ELSE LET a == Abs(x.v)
           e == Digits(a) - 1
       IN  [text |-> "e", sign |-> Sgn(x.v),
            mant |-> IF e <= 6 THEN a * Pow10(6 - e) ELSE RoundDiv(a, Pow10(e - 6)),
            exp |-> e]

\* one row of the chain file
FormatRow(A) == [i \in 1..Nparam |-> FormatE(A[i])]

\* the rows fprintf writes for a chain buffer
FormatRows(ch) == [j \in 1..Len(ch) |-> FormatRow(ch[j])]

\* a writer that truncates the file whatever its rank
OpenModeTruncate(rank) == "w"

\* the mode of fopen: rank 0 creates the file, the others append
OpenMode(rank) == IF rank = 0 THEN "w" ELSE "a"

\* MPI_Abort: every rank is terminated
Aborted == [v \in Ranks |-> "aborted"]

\* an exit of the calling process alone: the other ranks keep running
ExitSelf(w) == [pc EXCEPT ![w] = "aborted"]

\* MPI_Abort(MPI_COMM_WORLD, 1) called by rank w
Abort(w) == Aborted

\* a writer loop in which every rank writes at every turn
IsMyTurnAlways(r, rank) == TRUE

\* line 407: the turn r of the writer loop is the rank's own
IsMyTurn(r, rank) == r = rank

\* the state of one evaluation when none is made
EvIdle ==
  [pc |-> "idle", A |-> Vec(<<0, 0, 0, 0, 0, 0>>), result |-> Fin(0), nmodel |-> 0,
   guarded |-> FALSE]

\* the generator of a run whose words are taken as they come
MtIdle == [series |-> <<0>>, pos |-> [w \in Ranks |-> 0]]

\* a generator that is not seeded anew: it goes on from where the process
\* had left it
SeedPositionStale(w) == w

\* seedMT(SEEDNO + rank): the generator is at the start of the series of
\* its seed
SeedPosition(w) == 0

\* the i-th word of the series of the seed
WordAt(i) == mt.series[((i - 1) % Len(mt.series)) + 1]

\* the driver when main() is not run
DriverIdle ==
  [pc |-> "idle", dataFile |-> "ok", rows |-> 0, result |-> 0, Npts |-> 0,
   before |-> [log |-> "absent", chain |-> "absent", model |-> "absent"],
   files |-> [log |-> "absent", chain |-> "absent", model |-> "absent"],
   walkersCalled |-> FALSE, exit |-> "none"]

\* the state of every rank before it enters walkers()
InitRanks ==
  /\ pc = [w \in Ranks |-> "entry"]
  /\ Aparam = [w \in Ranks |-> Aparam0]
  /\ AparamMax = [w \in Ranks |-> Unset]
  /\ probpre = [w \in Ranks |-> Fin(0)]
  /\ postMax = [w \in Ranks |-> Fin(0)]
  /\ accept = [w \in Ranks |-> 0]
  /\ ichain = [w \in Ranks |-> 0]
  /\ chains = [w \in Ranks |-> <<>>]
  /\ turn = [w \in Ranks |-> 0]
  /\ acceptance = [w \in Ranks |-> AcceptanceRatio(0, 1)]
  /\ chainfile = {}
  /\ file = <<>>

\* a run of one rank on any of the inputs, or of several ranks on one input
Init ==
  /\ sz \in 1..MaxWorld
  /\ Nchain \in {n \in 0..MaxChain : sz * n <= MaxRows}
  /\ implicitInt \in BOOLEAN
  /\ \E in \in WalkerInputs(sz) :
       /\ Aparam0 = in.Aparam0
       /\ dev = in.dev
       /\ data = in.data
  /\ InitRanks
  /\ mt = MtIdle
  /\ driver = DriverIdle
  /\ ev = EvIdle

\* lines 332-360: the chain buffer is allocated, the posterior of the initial
\* parameters computed, the generator seeded (seedMT) and *postMax set
Enter(w) ==
  /\ pc[w] = "entry"
  /\ probpre' = [probpre EXCEPT ![w] = post(Aparam[w], data)]
  /\ postMax' = [postMax EXCEPT ![w] = Fin(-Huge)]
  /\ accept' = [accept EXCEPT ![w] = 0]
  /\ ichain' = [ichain EXCEPT ![w] = 1]
  /\ pc' = [pc EXCEPT ![w] = IF 1 <= Nchain THEN "sample" ELSE "writer"]
  /\ mt' = [mt EXCEPT !.pos[w] = SeedPosition(w)]
  /\ UNCHANGED <<inputs, driver, Aparam, AparamMax, chains, turn, acceptance, chainfile, file, ev>>

\* lines 343-348: malloc returns NULL and the run is aborted; the processes
\* end and the file a rank holds open is closed with them
AllocFail(w) ==
  /\ pc[w] = "entry"
  /\ pc' = Abort(w)
  /\ chainfile' = {}
  /\ UNCHANGED <<inputs, mt, driver, Aparam, AparamMax, probpre, postMax, accept, ichain, chains,
                 turn, acceptance, file, ev>>

\* an iteration that moves to the candidate whether it is accepted or not
TrialMoveOnReject(A, ppre, Amax, pmax, cand, ppost, word) ==
  LET ok == MetropolisTest(ppost, ppre, Uniform(Draw(word)))
      best == ok /\ IsMostLikely(ppost, pmax)
  IN  [ok |-> ok,
       Aparam |-> cand,
       AparamMax |-> IF best THEN cand ELSE Amax,
       postMax |-> IF best THEN ppost ELSE pmax,
       row |-> ChainRow(cand, cand)]

\* lines 372-395 for a candidate of posterior ppost and one word of the
\* series: whether the candidate is accepted, and the parameters, the most
\* likely parameters and *postMax after the test
Trial(A, ppre, Amax, pmax, cand, ppost, word) ==
  LET ok == MetropolisTest(ppost, ppre, Uniform(Draw(word)))
      best == ok /\ IsMostLikely(ppost, pmax)
  IN  [ok |-> ok,
       Aparam |-> IF ok THEN cand ELSE A,
       AparamMax |-> IF best THEN cand ELSE Amax,
       postMax |-> IF best THEN ppost ELSE pmax,
       row |-> ChainRow(IF ok THEN cand ELSE A, cand)]

\* lines 363-395: the outcomes of one iteration over the random series
Trials(A, ppre, Amax, pmax) ==
  UNION {LET ppost == post(cand, data)
         IN  {Trial(A, ppre, Amax, pmax, cand, ppost, word) : word \in Words} :
           cand \in Candidates(A)}

\* lines 361-404: one iteration of the chain
Iterate(w) ==
  /\ pc[w] = "sample"
  /\ \E t \in Trials(Aparam[w], probpre[w], AparamMax[w], postMax[w]) :
       /\ Aparam' = [Aparam EXCEPT ![w] = t.Aparam]
       /\ accept' = [accept EXCEPT ![w] = IF t.ok THEN @ + 1 ELSE @]
       /\ AparamMax' = [AparamMax EXCEPT ![w] = t.AparamMax]
       /\ postMax' = [postMax EXCEPT ![w] = t.postMax]
       /\ chains' = [chains EXCEPT ![w] = Append(@, t.row)]
  /\ ichain' = [ichain EXCEPT ![w] = @ + 1]
  /\ pc' = [pc EXCEPT ![w] = IF ichain[w] + 1 <= Nchain THEN "sample" ELSE "writer"]
  /\ UNCHANGED <<inputs, mt, driver, probpre, turn, acceptance, chainfile, file, ev>>

\* lines 406-407, 424: it is another rank's turn; the rank goes to the barrier
NotMyTurn(w) ==
  /\ pc[w] = "writer"
  /\ ~IsMyTurn(turn[w], w)
  /\ pc' = [pc EXCEPT ![w] = "barrier"]
  /\ UNCHANGED <<inputs, mt, driver, Aparam, AparamMax, probpre, postMax, accept, ichain, chains,
                 turn, acceptance, chainfile, file, ev>>

\* line 409: the rank opens the chain file on its turn
Open(w) ==
  /\ pc[w] = "writer"
  /\ IsMyTurn(turn[w], w)
  /\ chainfile' = chainfile \cup {w}
  /\ file' = IF OpenMode(w) = "w" THEN <<>> ELSE file
  /\ pc' = [pc EXCEPT ![w] = "opened"]
  /\ UNCHANGED <<inputs, mt, driver, Aparam, AparamMax, probpre, postMax, accept, ichain, chains,
                 turn, acceptance, ev>>

\* lines 409-413: fopen returns NULL and the run is aborted; the processes
\* end and with them every open file
OpenFail(w) ==
  /\ pc[w] = "writer"
  /\ IsMyTurn(turn[w], w)
  /\ pc' = Abort(w)
  /\ chainfile' = {}
  /\ UNCHANGED <<inputs, mt, driver, Aparam, AparamMax, probpre, postMax, accept, ichain, chains,
                 turn, acceptance, file, ev>>

\* lines 416-418: the rank prints its chain buffer
WriteRows(w) ==
  /\ pc[w] = "opened"
  /\ file' = file \o FormatRows(chains[w])
  /\ pc' = [pc EXCEPT ![w] = "written"]
  /\ UNCHANGED <<inputs, mt, driver, Aparam, AparamMax, probpre, postMax, accept, ichain, chains,
                 turn, acceptance, chainfile, ev>>

\* lines 422-424: the rank closes the file and goes to the barrier
Close(w) ==
  /\ pc[w] = "written"
  /\ chainfile' = chainfile \ {w}
  /\ pc' = [pc EXCEPT ![w] = "barrier"]
  /\ UNCHANGED <<inputs, mt, driver, Aparam, AparamMax, probpre, postMax, accept, ichain, chains,
                 turn, acceptance, file, ev>>

\* a loop over the turns that makes one round more than there are ranks
InLoopOneMore(r) == r <= sz

\* line 406: the loop over the turns goes on while r < sz
InLoop(r) == r < sz

\* lines 424 and 406: every rank has entered MPI_Barrier; all leave it and
\* step their loop variable
Barrier ==
  /\ \A w \in Ranks : pc[w] = "barrier"
  /\ turn' = [w \in Ranks |-> turn[w] + 1]
  /\ pc' = [w \in Ranks |-> IF InLoop(turn[w] + 1) THEN "writer" ELSE "exit"]
  /\ UNCHANGED <<inputs, mt, driver, Aparam, AparamMax, probpre, postMax, accept, ichain, chains,
                 acceptance, chainfile, file, ev>>

\* lines 427-435: AparamMax is copied to the caller's array, whatever it
\* holds, and the acceptance ratio is returned
Return(w) ==
  /\ pc[w] = "exit"
  /\ \E g \in (IF AparamMax[w] = Unset THEN Garbage ELSE {AparamMax[w]}) :
       Aparam' = [Aparam EXCEPT ![w] = g]
  /\ acceptance' = [acceptance EXCEPT ![w] = AcceptanceRatio(accept[w], Nchain)]
  /\ pc' = [pc EXCEPT ![w] = "done"]
  /\ UNCHANGED <<inputs, mt, driver, AparamMax, probpre, postMax, accept, ichain, chains, turn,
                 chainfile, file, ev>>

Next ==
  \/ \E w \in Ranks : Enter(w)
  \/ \E w \in Ranks : AllocFail(w)
  \/ \E w \in Ranks : Iterate(w)
  \/ \E w \in Ranks : NotMyTurn(w)
  \/ \E w \in Ranks : Open(w)
  \/ \E w \in Ranks : OpenFail(w)
  \/ \E w \in Ranks : WriteRows(w)
  \/ \E w \in Ranks : Close(w)
  \/ Barrier
  \/ \E w \in Ranks : Return(w)

Spec == Init /\ [][Next]_vars

\* ------------------------------------- evaluations of the target distribution
\* the values of a component: negative, zero, positive, not a number
EvalValues == {Fin(-1), Fin(0), Fin(2), NaN}

\* the parameter vectors evaluated
EvalVectors == [1..Nparam -> EvalValues]

\* the data points of the evaluations; the last has a zero sigma
EvalPoints == {<<0, 0, 3, 1>>, <<1, 0, 1, 2>>, <<0, 1, 2, 0>>}

\* like, prior or post is about to be called on any vector and any dataset
InitEval ==
  /\ sz = 1
  /\ Nchain = 0
  /\ implicitInt = TRUE
  /\ Aparam0 = Vec(<<2, 1, -1, 1, 1, 1>>)
  /\ dev = Vec(<<1, 0, 0, 0, 0, 0>>)
  /\ data \in {DataOf(q) : q \in SeqsUpTo(EvalPoints, MaxPts)}
  /\ InitRanks
  /\ mt = MtIdle
  /\ driver = DriverIdle
  /\ ev \in {[pc |-> "call", A |-> a, result |-> Fin(0), nmodel |-> 0, guarded |-> FALSE] :
               a \in EvalVectors}

\* like(Nparam, Aparam, Npts, uCo, vCo, Vis, Sigma)
CallLike ==
  /\ ev.pc = "call"
  /\ ev' = [ev EXCEPT !.pc = "like", !.result = likeRun(ev.A, data).result,
                      !.nmodel = likeRun(ev.A, data).nmodel,
                      !.guarded = likeRun(ev.A, data).guarded]
  /\ UNCHANGED <<inputs, mt, driver, pc, Aparam, AparamMax, probpre, postMax, accept, ichain,
                 chains, turn, acceptance, chainfile, file>>

\* prior(Nparam, Aparam)
CallPrior ==
  /\ ev.pc = "call"
  /\ ev' = [ev EXCEPT !.pc = "prior", !.result = prior(ev.A)]
  /\ UNCHANGED <<inputs, mt, driver, pc, Aparam, AparamMax, probpre, postMax, accept, ichain,
                 chains, turn, acceptance, chainfile, file>>

\* post(Nparam, Aparam, Npts, uCo, vCo, Vis, Sigma)
CallPost ==
  /\ ev.pc = "call"
  /\ ev' = [ev EXCEPT !.pc = "post", !.result = post(ev.A, data),
                      !.nmodel = likeRun(ev.A, data).nmodel,
                      !.guarded = likeRun(ev.A, data).guarded]
  /\ UNCHANGED <<inputs, mt, driver, pc, Aparam, AparamMax, probpre, postMax, accept, ichain,
                 chains, turn, acceptance, chainfile, file>>

NextEval == CallLike \/ CallPrior \/ CallPost

SpecEval == InitEval /\ [][NextEval]_vars

\* ------------------------------------------------------------- properties
\* every rank has returned from walkers()
AllReturned == \A w \in Ranks : pc[w] = "done"

\* the rows of the chain a rank has gone through, and where it started
Visited(w) == {Aparam0} \cup {chains[w][k] : k \in 1..Len(chains[w])}

\* the state of the chain before iteration k of rank w
StateBefore(w, k) == IF k = 1 THEN Aparam0 ELSE chains[w][k - 1]

\* a component is negative
IsNeg(x) == ~IsNaN(x) /\ x.v < 0

\* a component is zero or negative
IsNonPos(x) == ~IsNaN(x) /\ x.v <= 0

\* the fluxes and widths of a vector: flux1, width1, flux2, width2
FluxWidth == {1, 2, 5, 6}

\* C1: when every rank has returned, the chain file holds exactly sz*Nchain
\* rows, and the rows r*Nchain+1 .. (r+1)*Nchain are the rows of rank r's
\* chain buffer, as printed, in the order of the iterations.
C1_RankOrderedBlocks ==
  AllReturned =>
    /\ Len(file) = sz * Nchain
    /\ \A r \in Ranks :
         /\ Len(chains[r]) = Nchain
         /\ \A k \in 1..Nchain : file[r * Nchain + k] = FormatRow(chains[r][k])

\* two ranks have returned with different chains of two different rows each
C1_Witness ==
  /\ AllReturned
  /\ sz = 2
  /\ Nchain = 2
  /\ chains[0] # chains[1]
  /\ chains[0][1] # chains[0][2]
  /\ chains[1][1] # chains[1][2]

\* C2: at the start of every iteration the stored posterior probpre is the
\* posterior of the current parameters.
C2_StoredPosteriorIsCurrent ==
  \A w \in Ranks : pc[w] = "sample" => probpre[w] = post(Aparam[w], data)

\* C3: when walkers() returns, *postMax is at least the posterior of the
\* initial parameters.
C3_MapAtLeastInitial ==
  \A w \in Ranks : pc[w] = "done" => DGe(postMax[w], post(Aparam0, data))

\* C4: when walkers() returns, Aparam holds a vector the chain has visited,
\* its posterior is *postMax, and no visited vector has a greater posterior.
C4_MostLikelyReturned ==
  \A w \in Ranks :
    pc[w] = "done" =>
      /\ Aparam[w] \in Visited(w)
      /\ post(Aparam[w], data) = postMax[w]
      /\ \A v \in Visited(w) : ~DGt(post(v, data), postMax[w])

\* C5: *postMax is the sentinel -1.e34 when the first iteration starts, and
\* every later step either leaves it or replaces it by a strictly greater
\* value.
C5_MapNeverDecreases ==
  [][\A w \in Ranks :
       /\ (pc[w] = "entry" /\ pc'[w] \in {"sample", "writer"}) => postMax'[w] = Fin(-Huge)
       /\ pc[w] # "entry" => (postMax'[w] = postMax[w] \/ DGt(postMax'[w], postMax[w]))]_vars

\* the first two candidates were accepted and the second, of greater
\* posterior than the first, replaced it as the most likely
C5_Witness ==
  \E w \in Ranks :
    /\ Len(chains[w]) >= 2
    /\ accept[w] >= 2
    /\ postMax[w] = post(chains[w][2], data)
    /\ DGt(postMax[w], post(chains[w][1], data))
    /\ DGt(post(chains[w][1], data), Fin(-Huge))

\* C6: 0 <= accept <= iterations completed <= Nchain in every state, and the
\* acceptance ratio returned lies in [0, 1].
C6_AcceptanceInRange ==
  \A w \in Ranks :
    /\ 0 <= accept[w]
    /\ accept[w] <= Len(chains[w])
    /\ Len(chains[w]) <= Nchain
    /\ pc[w] = "done" =>
         /\ acceptance[w].den > 0
         /\ 0 <= acceptance[w].num
         /\ acceptance[w].num <= acceptance[w].den

\* C7: an iteration appends one row at index ichain-1: the candidate when it
\* is accepted, the previous row (the initial vector at the first iteration)
\* when it is not; after the loop the buffer holds Nchain rows.
C7_ChainRecordRows ==
  /\ [](\A w \in Ranks :
          /\ pc[w] = "sample" => (Len(chains[w]) = ichain[w] - 1 /\ ichain[w] <= Nchain)
          /\ pc[w] = "sample" => Aparam[w] = StateBefore(w, ichain[w])
          /\ pc[w] \in {"writer", "opened", "written", "barrier", "exit", "done"}
               => Len(chains[w]) = Nchain)
  /\ [][\A w \in Ranks :
          (pc[w] = "sample" /\ ichain'[w] = ichain[w] + 1) =>
            /\ Len(chains'[w]) = ichain[w]
            /\ SubSeq(chains'[w], 1, ichain[w] - 1) = chains[w]
            /\ IF accept'[w] = accept[w] + 1
               THEN chains'[w][ichain[w]] \in Candidates(Aparam[w])
               ELSE /\ accept'[w] = accept[w]
                    /\ chains'[w][ichain[w]] = StateBefore(w, ichain[w])]_vars

\* a chain of two rows: the first candidate was accepted and changed the
\* parameters, the second was rejected
C7_Witness ==
  \E w \in Ranks :
    /\ pc[w] = "writer"
    /\ Nchain = 2
    /\ accept[w] = 1
    /\ chains[w][1] # Aparam0
    /\ chains[w][2] = chains[w][1]

\* C8: like() called with a negative flux or width returns -1.e34 from its
\* guard without calling model(); with no negative flux or width it does
\* not return from the guard, whatever the offsets dx and dy.
C8_NegativeGuard ==
  ev.pc = "like" =>
    IF \E i \in FluxWidth : IsNeg(ev.A[i])
    THEN ev.guarded /\ ev.result = Fin(-Huge) /\ ev.nmodel = 0
    ELSE ~ev.guarded /\ ev.nmodel = Npts(data)

\* like() has returned the sentinel for a dataset with a point and a vector
\* whose only negative component is the width of the second Gaussian
C8_Witness ==
  /\ ev.pc = "like"
  /\ Npts(data) >= 1
  /\ IsNeg(ev.A[6])
  /\ \A i \in 1..5 : ~IsNeg(ev.A[i])
  /\ ev.result = Fin(-Huge)

\* C9: like() returns the sentinel for every vector with a flux or width
\* that is zero or negative, and the posterior of such a vector is not
\* greater than the posterior of any vector whose fluxes and widths are
\* all positive.
C9_NonPositiveSuppressed ==
  (\E i \in FluxWidth : IsNonPos(ev.A[i])) =>
     /\ ev.pc = "like" => ev.result = Fin(-Huge)
     /\ ev.pc = "post" =>
          \A phys \in {a \in EvalVectors : \A i \in FluxWidth : a[i] = Fin(2)} :
             ~DGt(ev.result, post(phys, data))

\* C10: post() called on a vector of numbers with a negative flux or width
\* returns a defined value, the sentinel.
C10_PosteriorGuarded ==
  (/\ ev.pc = "post"
   /\ \A i \in 1..Nparam : ~IsNaN(ev.A[i])
   /\ \E i \in FluxWidth : IsNeg(ev.A[i]))
    => (~IsNaN(ev.result) /\ ev.result = Fin(-Huge))

\* C11: at most one rank has the chain file open; a rank that has it open
\* is at its own turn, every lower rank has closed the file, left its whole
\* block in it and is at a later turn than its own, and an open empties the
\* file only for rank 0.
C11_OneWriterAtATime ==
  /\ [](/\ Cardinality(chainfile) <= 1
        /\ \A w \in chainfile :
             /\ pc[w] \in {"opened", "written"}
             /\ turn[w] = w
             /\ Len(file) = w * Nchain + (IF pc[w] = "written" THEN Nchain ELSE 0)
             /\ \A r \in 0..(w - 1) :
                  /\ r \notin chainfile
                  /\ pc[r] \in {"writer", "barrier"}
                  /\ turn[r] = w
                  /\ \A k \in 1..Nchain : file[r * Nchain + k] = FormatRow(chains[r][k]))
  /\ [][\A w \in Ranks :
          (w \notin chainfile /\ w \in chainfile') =>
            (IF w = 0 THEN file' = <<>> ELSE file' = file)]_vars

\* rank 1 has opened the file, which holds the block of rank 0
C11_Witness ==
  /\ sz = 2
  /\ Nchain = 2
  /\ chainfile = {1}
  /\ pc[1] = "opened"
  /\ Len(file) = 2

\* C12: a failed allocation or a failed open terminates every rank in the
\* same step, without a row written; a run in which a rank is terminated has
\* every rank terminated, none left at the barrier, and takes no further step.
C12_FailureAbortsRun ==
  /\ []((\E w \in Ranks : pc[w] = "aborted") => (\A v \in Ranks : pc[v] = "aborted"))
  /\ [][/\ (\E w \in Ranks : AllocFail(w) \/ OpenFail(w)) =>
             (/\ \A v \in Ranks : pc'[v] = "aborted"
              /\ file' = file
              /\ chains' = chains)
        /\ \A v \in Ranks : pc[v] # "aborted"]_vars

\* rank 1 failed while rank 0, its block written, waited at the barrier
C12_Witness ==
  /\ sz = 2
  /\ Nchain >= 1
  /\ \A v \in Ranks : pc[v] = "aborted"
  /\ Len(file) = Nchain
  /\ Len(chains[0]) = Nchain

\* C14: with the chain length 0 a rank that returns has made no iteration,
\* its chain buffer is empty and the ratio it returns is the number 0.
C14_EmptyChainRatioZero ==
  \A w \in Ranks :
    (Nchain = 0 /\ pc[w] = "done") =>
      /\ Len(chains[w]) = 0
      /\ accept[w] = 0
      /\ acceptance[w].den # 0
      /\ acceptance[w].num = 0

\* C17: an iteration that rejects its candidate leaves the parameters, the
\* stored posterior, the acceptance counter, the most likely parameters and
\* *postMax as they were, and appends the unchanged parameters to the chain.
C17_RejectLeavesState ==
  [][\A w \in Ranks :
       (pc[w] = "sample" /\ ichain'[w] = ichain[w] + 1 /\ accept'[w] # accept[w] + 1) =>
         /\ accept'[w] = accept[w]
         /\ Aparam'[w] = Aparam[w]
         /\ probpre'[w] = probpre[w]
         /\ AparamMax'[w] = AparamMax[w]
         /\ postMax'[w] = postMax[w]
         /\ chains'[w] = Append(chains[w], Aparam[w])]_vars

\* the second candidate was rejected after the first was accepted as the
\* most likely: the most likely parameters and *postMax are those of row 1
C17_Witness ==
  \E w \in Ranks :
    /\ Len(chains[w]) = 2
    /\ accept[w] = 1
    /\ chains[w][1] # Aparam0
    /\ chains[w][2] = chains[w][1]
    /\ Aparam[w] = chains[w][1]
    /\ AparamMax[w] = chains[w][1]
    /\ postMax[w] = post(chains[w][1], data)

\* the fluxes and widths of a vector are all positive
Physical(A) == \A i \in FluxWidth : DGt(A[i], Fin(0))

\* a flux or a width of a vector is negative
HasNegative(A) == \E i \in FluxWidth : IsNeg(A[i])

\* no row of the chain, no current vector and no most likely vector of
\* rank w has a negative flux or width
NoNegativeKept(w) ==
  /\ \A k \in 1..Len(chains[w]) : ~HasNegative(chains[w][k])
  /\ ~HasNegative(Aparam[w])
  /\ AparamMax[w] # Unset => ~HasNegative(AparamMax[w])

\* C18 as stated: in a chain started from a vector with positive fluxes and
\* widths and a finite posterior, no row of the chain, no current vector and
\* no most likely vector has a negative flux or width.
C18_NoNegativeAccepted ==
  \A w \in Ranks :
    (/\ Physical(Aparam0)
     /\ IsFin(post(Aparam0, data))
     /\ pc[w] \in {"sample", "writer"}) => NoNegativeKept(w)

\* the rows of the chain buffer of a rank: after each iteration the accepted
\* candidate or the state that was kept
ChainRows(w) == {chains[w][k] : k \in 1..Len(chains[w])}

\* C19: the most likely parameters and *postMax change only in an iteration
\* that accepts a candidate of posterior strictly greater than *postMax, and
\* they become that candidate and its posterior; no iteration accepts a
\* candidate and leaves *postMax below its posterior, so that *postMax is
\* the greatest posterior accepted so far; whenever *postMax, once set at
\* line 360, is not the sentinel it is the posterior of the most likely
\* parameters, which are a row of the chain.
C19_MapConsistent ==
  /\ [](\A w \in Ranks :
          (ichain[w] >= 1 /\ postMax[w] # Fin(-Huge)) =>
            /\ AparamMax[w] # Unset
            /\ AparamMax[w] \in ChainRows(w)
            /\ postMax[w] = post(AparamMax[w], data))
  /\ [][\A w \in Ranks :
          /\ (pc[w] # "entry" /\ (postMax'[w] # postMax[w] \/ AparamMax'[w] # AparamMax[w])) =>
               /\ pc[w] = "sample"
               /\ accept'[w] = accept[w] + 1
               /\ DGt(postMax'[w], postMax[w])
               /\ AparamMax'[w] = Aparam'[w]
               /\ postMax'[w] = post(Aparam'[w], data)
          /\ (pc[w] = "sample" /\ accept'[w] = accept[w] + 1) =>
               ~DGt(post(Aparam'[w], data), postMax'[w])]_vars

\* two candidates were accepted, the first the most likely: the second, of
\* no greater posterior, did not replace it
C19_Witness ==
  \E w \in Ranks :
    /\ Len(chains[w]) = 2
    /\ accept[w] = 2
    /\ AparamMax[w] = chains[w][1]
    /\ chains[w][2] # chains[w][1]
    /\ postMax[w] = post(chains[w][1], data)
    /\ postMax[w] # Fin(-Huge)

\* the sum over the first n data points of ((observed - model)/sigma)^2
RECURSIVE SquaredResiduals(_, _, _)
SquaredResiduals(A, d, n) ==
  IF n = 0 THEN Fin(0)
  ELSE LET residual == DSub(Fin(d.Vis[n]), model(d.uCo[n], d.vCo[n], A))
       IN  DAdd(SquaredResiduals(A, d, n - 1),
                DDiv(DMul(residual, residual), DMul(Fin(d.Sigma[n]), Fin(d.Sigma[n]))))

\* the vector evaluated consists of numbers and its fluxes and widths are
\* not negative
NonNegativeNumbers ==
  /\ \A i \in 1..Nparam : ~IsNaN(ev.A[i])
  /\ \A i \in FluxWidth : ~IsNeg(ev.A[i])

\* C15 as stated: for a vector with non-negative fluxes and widths like()
\* returns -0.5 times the sum of the squared residuals, that is, twice its
\* result is minus the sum.
C15_HalfChiSquare ==
  (ev.pc = "like" /\ NonNegativeNumbers) =>
     DAdd(ev.result, ev.result) = DNeg(SquaredResiduals(ev.A, data, Npts(data)))

\* C15, amended: for a vector with non-negative fluxes and widths like()
\* returns minus the sum of the squared residuals, without a factor 0.5.
C15_NegativeChiSquare ==
  (ev.pc = "like" /\ NonNegativeNumbers) =>
     ev.result = DNeg(SquaredResiduals(ev.A, data, Npts(data)))

\* like() has returned a negative number for a data point of error 2
C15_Witness ==
  /\ ev.pc = "like"
  /\ NonNegativeNumbers
  /\ Npts(data) = 1
  /\ data.Sigma[1] = 2
  /\ IsFin(ev.result)
  /\ ev.result.v < 0

\* ------------------------------------------------ calls of the step generator
\* the standard deviations of the calls of gauss()
GaussSigmas == {Fin(-1), Fin(0), Fin(1), Fin(2)}

\* gauss() or the uniform draw of the walker is about to be made, for any
\* two words of the random series and either reading of randomMT()'s result
InitGauss ==
  /\ sz = 1
  /\ Nchain = 0
  /\ implicitInt \in BOOLEAN
  /\ Aparam0 = Vec(<<2, 1, -1, 1, 1, 1>>)
  /\ dev = Vec(<<1, 0, 0, 0, 0, 0>>)
  /\ data = OnePoint
  /\ InitRanks
  /\ mt = MtIdle
  /\ driver = DriverIdle
  /\ ev \in {[pc |-> "call", sigma |-> s, word1 |-> a, word2 |-> b,
              y |-> Uniform(0), result |-> Fin(0)] :
               s \in GaussSigmas, a \in Words, b \in Words}

\* gauss(sigma): y is its y1
CallGauss ==
  /\ ev.pc = "call"
  /\ ev' = [ev EXCEPT !.pc = "gauss", !.y = Uniform(Draw(ev.word1)),
                      !.result = gauss(ev.sigma, ev.word1, ev.word2)]
  /\ UNCHANGED <<inputs, mt, driver, pc, Aparam, AparamMax, probpre, postMax, accept, ichain,
                 chains, turn, acceptance, chainfile, file>>

\* line 373 and the log of line 377: y is probRandom, the result its log
CallUniform ==
  /\ ev.pc = "call"
  /\ ev' = [ev EXCEPT !.pc = "uniform", !.y = Uniform(Draw(ev.word1)),
                      !.result = LogQ(Uniform(Draw(ev.word1)).n, Uniform(Draw(ev.word1)).d)]
  /\ UNCHANGED <<inputs, mt, driver, pc, Aparam, AparamMax, probpre, postMax, accept, ichain,
                 chains, turn, acceptance, chainfile, file>>

NextGauss == CallGauss \/ CallUniform

SpecGauss == InitGauss /\ [][NextGauss]_vars

\* C20: for every two words of the series gauss() computes a y1 with
\* 0 < y1 <= 1 and returns a number, not a NaN.
C20_GaussNeverFails ==
  ev.pc = "gauss" =>
    /\ 0 < ev.y.n
    /\ ev.y.n <= ev.y.d
    /\ IsFin(ev.result)

\* ------------------------------------------------- two runs with one seed
\* The per-rank variables hold two runs of walkers() by processes of the
\* same rank: run 0 and run 1.  seedMT(SEEDNO + rank) gives both the same
\* series, any sequence of words, and the runs advance in any order.  Before
\* it is seeded the generator of a process is at a place of its own.
InitDet ==
  /\ sz = 2
  /\ Nchain \in 0..MaxChain
  /\ implicitInt \in BOOLEAN
  /\ Aparam0 = Vec(<<2, 1, -1, 1, 1, 1>>)
  /\ dev \in Deviations
  /\ data = OnePoint
  /\ InitRanks
  /\ ev = EvIdle
  /\ mt \in {[series |-> s, pos |-> [w \in Ranks |-> w]] :
               s \in [1..StreamPeriod -> Words]}
  /\ driver = DriverIdle

\* lines 364-367 with the words of the series from place p on
SeededCandidate(A, p) ==
  Candidate(A, [i \in 1..Nparam |->
                  gauss(dev[i], WordAt(p + 2 * i - 1), WordAt(p + 2 * i))])

\* lines 361-404: one iteration of the chain with the words the generator
\* of the run returns: two for each parameter and one for the test
SeededIterate(w) ==
  /\ pc[w] = "sample"
  /\ LET cand == SeededCandidate(Aparam[w], mt.pos[w])
         t == Trial(Aparam[w], probpre[w], AparamMax[w], postMax[w], cand,
                    post(cand, data), WordAt(mt.pos[w] + 2 * Nparam + 1))
     IN  /\ Aparam' = [Aparam EXCEPT ![w] = t.Aparam]
         /\ accept' = [accept EXCEPT ![w] = IF t.ok THEN @ + 1 ELSE @]
         /\ AparamMax' = [AparamMax EXCEPT ![w] = t.AparamMax]
         /\ postMax' = [postMax EXCEPT ![w] = t.postMax]
         /\ chains' = [chains EXCEPT ![w] = Append(@, t.row)]
  /\ mt' = [mt EXCEPT !.pos[w] = @ + 2 * Nparam + 1]
  /\ ichain' = [ichain EXCEPT ![w] = @ + 1]
  /\ pc' = [pc EXCEPT ![w] = IF ichain[w] + 1 <= Nchain THEN "sample" ELSE "writer"]
  /\ UNCHANGED <<inputs, driver, probpre, turn, acceptance, chainfile, file, ev>>

NextDet == \E w \in Ranks : Enter(w) \/ SeededIterate(w)

SpecDet == InitDet /\ [][NextDet]_vars

\* the number of iterations both runs have completed
Common == IF Len(chains[0]) <= Len(chains[1]) THEN Len(chains[0]) ELSE Len(chains[1])

\* C13: two runs with the same seed, initial parameters, dataset and
\* deviations have the same chain rows as far as both have got, and after
\* the same number of iterations the same acceptance counter, parameters,
\* most likely parameters and *postMax, however the two are interleaved.
C13_Deterministic ==
  /\ SubSeq(chains[0], 1, Common) = SubSeq(chains[1], 1, Common)
  /\ (pc[0] # "entry" /\ pc[1] # "entry" /\ ichain[0] = ichain[1]) =>
       /\ accept[0] = accept[1]
       /\ Aparam[0] = Aparam[1]
       /\ AparamMax[0] = AparamMax[1]
       /\ postMax[0] = postMax[1]
       /\ probpre[0] = probpre[1]

\* both runs have completed a chain of two rows in which one candidate was
\* accepted and one rejected
C13_Witness ==
  /\ pc[0] = "writer"
  /\ pc[1] = "writer"
  /\ Nchain = 2
  /\ accept[0] = 1
  /\ accept[1] = 1
  /\ chains[1][1] # chains[1][2] \/ chains[1][1] # Aparam0

\* ---------------------------------------------------------------- main
\* what a file of the working directory can be before the run
FileStates == {"absent", "old"}

\* the dataset file: it does not exist, it may not be opened, it is opened
\* but cannot be read (a directory, a failing device), or it is read
DataFileStates == {"missing", "denied", "unreadable", "ok"}

\* an unmodified variable of the walker is written for main's steps
WalkerIdle ==
  UNCHANGED <<inputs, pc, Aparam, AparamMax, probpre, postMax, accept, ichain, chains,
              turn, acceptance, chainfile, file, ev, mt>>

\* main() is about to start: the dataset file in any state with any number
\* of rows, the three output files absent or left by an earlier run
InitMain ==
  /\ sz = 1
  /\ Nchain = 0
  /\ implicitInt = TRUE
  /\ Aparam0 = Vec(<<2, 1, -1, 1, 1, 1>>)
  /\ dev = Vec(<<1, 0, 0, 0, 0, 0>>)
  /\ data = OnePoint
  /\ InitRanks
  /\ ev = EvIdle
  /\ mt = MtIdle
  /\ driver \in {[pc |-> "start", dataFile |-> f, rows |-> n, result |-> 0, Npts |-> 0,
                  before |-> [log |-> l, chain |-> c, model |-> m],
                  files |-> [log |-> l, chain |-> c, model |-> m],
                  walkersCalled |-> FALSE, exit |-> "none"] :
                   f \in DataFileStates, n \in 0..MaxPts,
                   l \in FileStates, c \in FileStates, m \in FileStates}

\* readdata.c lines 60-97, called at mcmc.c line 75: fopen fails for a file
\* that is missing or may not be opened; fscanf returns no item at the end
\* of the file and also when the read fails, after any number of rows; the
\* result is 0 unless fclose fails
ReadData ==
  /\ driver.pc = "start"
  /\ IF driver.dataFile \in {"missing", "denied"}
     THEN driver' = [driver EXCEPT !.pc = "read", !.result = 1]
     ELSE \E got \in 0..driver.rows, closed \in BOOLEAN :
            /\ driver.dataFile = "ok" => got = driver.rows
            /\ driver' = [driver EXCEPT !.pc = "read", !.Npts = got,
                                        !.result = IF closed THEN 0 ELSE 1]
  /\ WalkerIdle

\* mcmc.c lines 77-81: readData has reported an error and main returns 1
ReadFailed ==
  /\ driver.pc = "read"
  /\ driver.result # 0
  /\ driver' = [driver EXCEPT !.pc = "exited", !.exit = "failure"]
  /\ WalkerIdle

\* mcmc.c lines 83-92: the log file is created and its first line written,
\* or main returns ERROR_FILE
OpenLog ==
  /\ driver.pc = "read"
  /\ driver.result = 0
  /\ \E opened \in BOOLEAN :
       driver' = IF opened
                 THEN [driver EXCEPT !.pc = "logged", !.files.log = "new"]
                 ELSE [driver EXCEPT !.pc = "exited", !.exit = "failure"]
  /\ WalkerIdle

\* mcmc.c lines 94-121: walkers is called through a declaration of ten
\* parameters while it is defined with eleven, which is undefined: the call
\* may write the chain file or not, and return or end the process
CallWalkers ==
  /\ driver.pc = "logged"
  /\ \E wrote \in BOOLEAN, returned \in BOOLEAN :
       driver' = [driver EXCEPT !.walkersCalled = TRUE,
                                !.files.chain = IF wrote THEN "new" ELSE @,
                                !.pc = IF returned THEN "walked" ELSE "exited",
                                !.exit = IF returned THEN @ ELSE "signal"]
  /\ WalkerIdle

\* mcmc.c lines 123-149: the log is completed, the model file created and
\* written and main returns 0 ("success"), or the model file cannot be created and main
\* returns ERROR_FILE
WriteModel ==
  /\ driver.pc = "walked"
  /\ \E opened \in BOOLEAN :
       driver' = IF opened
                 THEN [driver EXCEPT !.pc = "exited", !.files.model = "new", !.exit = "success"]
                 ELSE [driver EXCEPT !.pc = "exited", !.exit = "failure"]
  /\ WalkerIdle

NextMain == ReadData \/ ReadFailed \/ OpenLog \/ CallWalkers \/ WriteModel

SpecMain == InitMain /\ [][NextMain]_vars

\* C16: when the dataset file is missing or cannot be read, readData
\* reports an error, main ends with a nonzero status, no output file is
\* created or modified on the way and walkers is not called.
C16_MissingDatasetStops ==
  (driver.dataFile \in {"missing", "denied", "unreadable"} /\ driver.pc # "start") =>
     /\ driver.result # 0
     /\ driver.files = driver.before
     /\ ~driver.walkersCalled
     /\ driver.pc = "exited" => driver.exit # "success"

\* ------------------------------------------------- runs without a failure
\* a step of rank w in the first part of walkers(): lines 332-404
Sampler(w) == Enter(w) \/ Iterate(w)

\* a step of rank w in the second part of walkers(), the barrier apart:
\* lines 406-435
Writer(w) == NotMyTurn(w) \/ Open(w) \/ WriteRows(w) \/ Close(w) \/ Return(w)

\* rank w is in the first part of walkers(), where it can always take a
\* step: nothing there waits for another rank, and every guard of Enter
\* and Iterate is on pc[w] alone
Sampling(w) == w \in Ranks /\ pc[w] \in {"entry", "sample"}

\* rank w takes a step of the first part: Enter and Iterate step ichain of
\* their rank and no other action of a run changes it
Sampled(w) == Sampling(w) /\ ichain'[w] # ichain[w]

\* weak fairness of Sampler(w), with Sampling(w) written for ENABLED
\* <<Sampler(w)>>_vars and Sampled(w) for <<Sampler(w)>>_vars: a rank does
\* not stay in the first part for ever without taking a step
SamplerRuns(w) ==
  ([]<>(~Sampling(w))) \/ ([]<><<Sampled(w)>>_vars)

\* the runs in which malloc and fopen succeed
NextLive ==
  \/ \E w \in Ranks : Enter(w)
  \/ \E w \in Ranks : Iterate(w)
  \/ \E w \in Ranks : NotMyTurn(w)
  \/ \E w \in Ranks : Open(w)
  \/ \E w \in Ranks : WriteRows(w)
  \/ \E w \in Ranks : Close(w)
  \/ Barrier
  \/ \E w \in Ranks : Return(w)

\* Every rank is a process of its own that the system keeps running, at any
\* speed: a step it can take is taken in the end, and MPI_Barrier returns
\* once every rank has entered it.
SpecLive ==
  /\ Init
  /\ [][NextLive]_vars
  /\ (\A w \in 0..(MaxWorld - 1) : SamplerRuns(w))
  /\ (\A w \in 0..(MaxWorld - 1) : WF_vars(w \in Ranks /\ Writer(w)))
  /\ WF_vars(Barrier)

\* C21: without an allocation or file-open failure every rank ends its
\* Nchain iterations, leaves the barrier sz times, once for each turn, and
\* returns from walkers; a rank that waits at the barrier leaves it.
C21_EveryRankReturns ==
  /\ <>[](\A w \in Ranks : pc[w] = "done")
  /\ [](\A w \in Ranks :
          /\ turn[w] <= sz
          /\ pc[w] \in {"writer", "opened", "written", "barrier", "exit", "done"} =>
               Len(chains[w]) = Nchain
          /\ pc[w] \in {"exit", "done"} => turn[w] = sz)
  /\ \A w \in 0..(MaxWorld - 1) :
       (w \in Ranks /\ pc[w] = "barrier") ~> (w \in Ranks /\ pc[w] # "barrier")

\* the ranks of a world of several have all returned after iterations and
\* as many rounds of the barrier as there are ranks
C21_Witness ==
  /\ sz = MaxWorld
  /\ Nchain >= 1
  /\ \A w \in Ranks : pc[w] = "done" /\ turn[w] = sz /\ Len(chains[w]) = Nchain

=============================================================================
